---- MODULE Spec2Model ----
(***************************************************************************)
(* A model of the in-memory key-value server: the RESP request decoder,    *)
(* the command model, the store with lazy expiry, the command engine and   *)
(* the per-connection loop that runs them against the store shared behind  *)
(* one std::sync::Mutex.                                                   *)
(*                                                                         *)
(* Strings are sequences of one-character strings, so that the decoder's   *)
(* character scan, the integer parsers and the reply encoder are computed  *)
(* as the code computes them.  Only ASCII input is modelled (for it the    *)
(* decoder's byte index and its character iterator advance together).      *)
(***************************************************************************)
EXTENDS Integers, Sequences, FiniteSets, TLC

---------------------------------------------------------------------------
(* Bounds of the model. *)

\* connections are numbered 1..NConns
NConns == 2
\* the clock runs over 0..MaxTime (milliseconds)
MaxTime == 2
\* non-empty reads served by all connections together
MaxReads == 3

---------------------------------------------------------------------------
(* Characters and the constants of cmd.rs. *)

CARRIAGE_RETURN == "\r"
ARRAY_DENOTE == "*"
BULK_STRING_DENOTE == "$"
SIMPLE_STRING_DENOTE == "+"
ERROR_DENOTE == "-"
NULL_DENOTE == <<"-", "1">>
CRLF == <<"\r", "\n">>
ERROR_UNKNOWN_COMMAND == <<"E", "R", "R", " ", "u", "n", "k", "n", "o", "w", "n", " ", "c", "o", "m", "m", "a", "n", "d">>
MSG_SET_ARGS == <<"S", "E", "T", " ", "r", "e", "q", "u", "i", "r", "e", "s", " ", "e", "x", "a", "c", "t", "l", "y", " ", "t", "w", "o", " ", "a", "r", "g", "u", "m", "e", "n", "t", "s">>
MSG_GET_ARGS == <<"G", "E", "T", " ", "r", "e", "q", "u", "i", "r", "e", "s", " ", "e", "x", "a", "c", "t", "l", "y", " ", "o", "n", "e", " ", "a", "r", "g", "u", "m", "e", "n", "t">>

\* Option<T>: None, or Some(v) as a record
None == [tag |-> "None"]
Some(v) == [tag |-> "Some", val |-> v]
\* a panic (unwrap of None or Err, panic!, a slice out of bounds) as a result
Panic == [tag |-> "Panic"]

DigitChars == <<"0", "1", "2", "3", "4", "5", "6", "7", "8", "9">>
LowerChars == <<"a", "b", "c", "d", "e", "f", "g", "h", "i", "j", "k", "l", "m", "n", "o", "p", "q", "r", "s", "t", "u", "v", "w", "x", "y", "z">>
UpperChars == <<"A", "B", "C", "D", "E", "F", "G", "H", "I", "J", "K", "L", "M", "N", "O", "P", "Q", "R", "S", "T", "U", "V", "W", "X", "Y", "Z">>

\* the position of ch in the tuple t, 0 when it is not there
IndexIn(t, ch) == IF \E i \in 1..Len(t) : t[i] = ch
                  THEN CHOOSE i \in 1..Len(t) : t[i] = ch
                  ELSE 0

IsDigit(ch) == IndexIn(DigitChars, ch) # 0
DigitVal(ch) == IndexIn(DigitChars, ch) - 1

\* char::to_ascii_uppercase, and str::to_ascii_uppercase over a string
UpperChar(ch) == IF IndexIn(LowerChars, ch) # 0 THEN UpperChars[IndexIn(LowerChars, ch)] ELSE ch
ToAsciiUppercase(s) == [i \in 1..Len(s) |-> UpperChar(s[i])]

\* &s[lo..hi] with 0-based lo, hi (the caller has checked lo <= hi <= len)
Slice(s, lo, hi) == SubSeq(s, lo + 1, hi)

RECURSIVE DigitsValue(_)
DigitsValue(s) == IF Len(s) = 0 THEN 0
                  ELSE 10 * DigitsValue(SubSeq(s, 1, Len(s) - 1)) + DigitVal(s[Len(s)])

AllDigits(s) == Len(s) > 0 /\ \A i \in 1..Len(s) : IsDigit(s[i])

\* str::parse::<i64>: an optional sign, then one or more digits; None on failure
\* (strings long enough to overflow an i64 are outside the model's inputs)
ParseI64(s) ==
    IF Len(s) > 0 /\ s[1] \in {"+", "-"}
    THEN IF AllDigits(Tail(s))
         THEN Some(IF s[1] = "-" THEN 0 - DigitsValue(Tail(s)) ELSE DigitsValue(Tail(s)))
         ELSE None
    ELSE IF AllDigits(s) THEN Some(DigitsValue(s)) ELSE None

\* str::parse::<u64>: an optional "+", then one or more digits; a "-" is an error
ParseU64(s) ==
    IF Len(s) > 0 /\ s[1] = "+"
    THEN IF AllDigits(Tail(s)) THEN Some(DigitsValue(Tail(s))) ELSE None
    ELSE IF AllDigits(s) THEN Some(DigitsValue(s)) ELSE None

---------------------------------------------------------------------------
(* The decoder: deserialize_command_into_array. *)

\* the function's flow-control variables as they are before the loop
DecodeInit ==
    [cur_idx |-> 0, cmd_array |-> <<>>,
     parsing_array_len |-> FALSE, parsing_array_content |-> FALSE,
     parsing_bulk_string_len |-> FALSE,
     array_lower_bound |-> 0, array_prefix_len |-> -1,
     bulk_string_prefix_len |-> -1, bulk_string_len_lower_bound |-> 0]

\* DecodeCR with a fault: the array's length prefix is parsed and not kept
DecodeCRDroppingPrefix(cmd, d) ==
    IF d.parsing_array_len
    THEN LET p == ParseI64(Slice(cmd, d.array_lower_bound, d.cur_idx)) IN
         IF p.tag = "Some" /\ p.val = -1
         THEN None
         ELSE Some([d EXCEPT !.parsing_array_len = FALSE, !.cur_idx = @ + 2])
    ELSE IF d.parsing_bulk_string_len
    THEN LET p == ParseI64(Slice(cmd, d.bulk_string_len_lower_bound, d.cur_idx)) IN
         Some([d EXCEPT !.bulk_string_prefix_len = IF p.tag = "Some" THEN p.val ELSE @,
                        !.parsing_bulk_string_len = FALSE,
                        !.parsing_array_content = TRUE,
                        !.cur_idx = @ + 2])
    ELSE Some([d EXCEPT !.cur_idx = @ + 2])

\* the CARRIAGE_RETURN arm after its break test: the variables after the arm
\* and the loop's closing cur_idx += 1, or None for the return on a -1 prefix
DecodeCR(cmd, d) ==
    IF d.parsing_array_len
    THEN LET p == ParseI64(Slice(cmd, d.array_lower_bound, d.cur_idx)) IN
         IF p.tag = "Some" /\ p.val = -1
         THEN None
         ELSE Some([d EXCEPT !.array_prefix_len = IF p.tag = "Some" THEN p.val ELSE @,
                             !.parsing_array_len = FALSE,
                             !.cur_idx = @ + 2])
    ELSE IF d.parsing_bulk_string_len
    THEN LET p == ParseI64(Slice(cmd, d.bulk_string_len_lower_bound, d.cur_idx)) IN
         Some([d EXCEPT !.bulk_string_prefix_len = IF p.tag = "Some" THEN p.val ELSE @,
                        !.parsing_bulk_string_len = FALSE,
                        !.parsing_array_content = TRUE,
                        !.cur_idx = @ + 2])
    ELSE Some([d EXCEPT !.cur_idx = @ + 2])

\* the default arm: the variables after it and cur_idx += 1, or Panic when the
\* content slice is out of the string (a negative length other than -1 is a
\* huge usize)
DecodeContent(cmd, d) ==
    IF ~d.parsing_array_content
    THEN Some([d EXCEPT !.cur_idx = @ + 1])
    ELSE IF d.bulk_string_prefix_len = -1
    THEN Some([d EXCEPT !.cmd_array = Append(@, None), !.cur_idx = @ + 1])
    ELSE IF d.bulk_string_prefix_len < 0 \/ d.cur_idx + d.bulk_string_prefix_len > Len(cmd)
    THEN Panic
    ELSE Some([d EXCEPT
               !.cmd_array = Append(@, Some(Slice(cmd, d.cur_idx,
                                                  d.cur_idx + d.bulk_string_prefix_len))),
               !.cur_idx = @ + d.bulk_string_prefix_len + 1,
               !.parsing_array_content = FALSE])

RECURSIVE DecodeLoop(_, _)
DecodeLoop(cmd, d) ==
    IF d.cur_idx >= Len(cmd)
    THEN Some(d.cmd_array)
    ELSE LET cur_char == cmd[d.cur_idx + 1] IN
         IF cur_char = ARRAY_DENOTE
         THEN DecodeLoop(cmd, [d EXCEPT !.parsing_array_len = TRUE,
                                        !.array_lower_bound = d.cur_idx + 1,
                                        !.cur_idx = @ + 1])
         ELSE IF cur_char = CARRIAGE_RETURN
         THEN IF d.array_prefix_len = 0
              THEN Some(d.cmd_array)
              ELSE LET r == DecodeCR(cmd, d) IN
                   IF r.tag = "Some" THEN DecodeLoop(cmd, r.val) ELSE r
         ELSE IF cur_char = BULK_STRING_DENOTE
         THEN DecodeLoop(cmd, [d EXCEPT !.bulk_string_len_lower_bound = d.cur_idx + 1,
                                        !.parsing_bulk_string_len = TRUE,
                                        !.cur_idx = @ + 1])
         ELSE LET r == DecodeContent(cmd, d) IN
              IF r.tag = "Some" THEN DecodeLoop(cmd, r.val) ELSE r

\* None (no command), Some(tokens), or Panic
deserialize_command_into_array(cmd) ==
    IF Len(cmd) = 0 THEN None ELSE DecodeLoop(cmd, DecodeInit)

---------------------------------------------------------------------------
(* The command model: parse_cmd. *)

\* Some(Command), or Panic: on an empty array ("Command is null"), and on the
\* unwrap of a null first token or of a null argument token
parse_cmd(cmd_array) ==
    IF Len(cmd_array) = 0 THEN Panic
    ELSE IF \E i \in 1..Len(cmd_array) : cmd_array[i].tag = "None" THEN Panic
    ELSE Some([cmd |-> cmd_array[1].val,
               args |-> [i \in 1..(Len(cmd_array) - 1) |-> cmd_array[i + 1].val]])

\* Vec::get with a 0-based index
VecGet(v, i) == IF i < Len(v) THEN Some(v[i + 1]) ELSE None

\* EncodeBulkString with a fault: the null marker goes out as a simple string
EncodeBulkAsSimple(val) == <<SIMPLE_STRING_DENOTE>> \o val \o CRLF

\* RespValue::encode
EncodeSimpleString(val) == <<SIMPLE_STRING_DENOTE>> \o val \o CRLF
EncodeBulkString(val) == <<BULK_STRING_DENOTE>> \o val \o CRLF
EncodeError(msg) == <<ERROR_DENOTE>> \o msg \o CRLF

---------------------------------------------------------------------------
(* The store: store.rs.  The map is a function whose domain is the set of   *)
(* keys present; an Entry is [value, expiry], expiry an Option<Instant>.    *)

MapInsert(data, key, entry) ==
    [x \in (DOMAIN data) \cup {key} |-> IF x = key THEN entry ELSE data[x]]

MapRemove(data, key) == [x \in (DOMAIN data) \ {key} |-> data[x]]

MapGet(data, key) == IF key \in DOMAIN data THEN Some(data[key]) ELSE None

\* Store::new
StoreNew == << >>

\* StoreSet with a fault: the new value is merged into the entry, its expiry kept
StoreSetKeepExpiry(data, key, value) ==
    MapInsert(data, key,
              [value |-> value,
               expiry |-> IF key \in DOMAIN data THEN data[key].expiry ELSE None])

\* Store::set
StoreSet(data, key, value) ==
    MapInsert(data, key, [value |-> value, expiry |-> None])

\* StoreSetPx with a fault: the expiry is the clock reading, the ttl is dropped
StoreSetPxNoTtl(data, key, value, px, t) ==
    MapInsert(data, key, [value |-> value, expiry |-> Some(t)])

\* Store::set_px, t the reading of Instant::now()
StoreSetPx(data, key, value, px, t) ==
    MapInsert(data, key, [value |-> value, expiry |-> Some(t + px)])

\* Expired with a fault: an entry is expired from its deadline on (>= for >)
ExpiredAtDeadline(entry, t) == entry.expiry.tag = "Some" /\ t >= entry.expiry.val

\* the expiry test of Store::get, t the reading of Instant::now()
Expired(entry, t) == entry.expiry.tag = "Some" /\ t > entry.expiry.val

---------------------------------------------------------------------------
(* The command engine up to its first use of the store.                     *)

PONG == <<"P", "O", "N", "G">>
OK == <<"O", "K">>
PING == <<"P", "I", "N", "G">>
ECHO == <<"E", "C", "H", "O">>
SET == <<"S", "E", "T">>
GET == <<"G", "E", "T">>

\* CmdName with a fault: the name is matched as it was sent
CmdNameAsSent(command) == command.cmd

CmdName(command) == ToAsciiUppercase(command.cmd)

\* SET with a key and a value, GET with a key: the arms that lock the store
UsesStore(command) ==
    \/ CmdName(command) = SET /\ Len(command.args) >= 2
    \/ CmdName(command) = GET /\ Len(command.args) >= 1

\* SET whose args.get(2) and args.get(3) are both present: the set_px arm
IsSetPx(command) ==
    /\ CmdName(command) = SET
    /\ VecGet(command.args, 2).tag = "Some"
    /\ VecGet(command.args, 3).tag = "Some"

\* the reply of the arms of handle_command_response that do not use the store
ReplyWithoutStore(command) ==
    LET name == CmdName(command) IN
    IF name = PING THEN EncodeSimpleString(PONG)
    ELSE IF name = ECHO
    THEN IF VecGet(command.args, 0).tag = "Some"
         THEN EncodeSimpleString(command.args[1])
         ELSE EncodeSimpleString(<<>>)
    ELSE IF name = SET THEN EncodeError(MSG_SET_ARGS)
    ELSE IF name = GET THEN EncodeError(MSG_GET_ARGS)
    ELSE EncodeError(ERROR_UNKNOWN_COMMAND \o <<" ", "'">> \o command.cmd \o <<"'">>)

---------------------------------------------------------------------------
(* What clients send: requests in the wire format of the tests' strings,    *)
(* "*<argc>\r\n" then "$<len>\r\n<bytes>\r\n" per element, "$-1\r\n" for a    *)
(* null element.                                                            *)

RECURSIVE IntToChars(_)
IntToChars(n) == IF n < 10 THEN <<DigitChars[n + 1]>>
                 ELSE IntToChars(n \div 10) \o <<DigitChars[(n % 10) + 1]>>

BulkWire(token) ==
    IF token.tag = "None"
    THEN <<BULK_STRING_DENOTE>> \o NULL_DENOTE \o CRLF
    ELSE <<BULK_STRING_DENOTE>> \o IntToChars(Len(token.val)) \o CRLF \o token.val \o CRLF

RECURSIVE BulksWire(_)
BulksWire(tokens) == IF Len(tokens) = 0 THEN <<>>
                     ELSE BulkWire(Head(tokens)) \o BulksWire(Tail(tokens))

ArrayWire(tokens) ==
    <<ARRAY_DENOTE>> \o IntToChars(Len(tokens)) \o CRLF \o BulksWire(tokens)

\* a request of present strings
Req(strings) == ArrayWire([i \in 1..Len(strings) |-> Some(strings[i])])

PX == <<"P", "X">>
KeyK == <<"k">>
ValV == <<"v">>
ValW == <<"w">>

\* the buffers a read can deliver
Requests ==
    { Req(<<PING>>),
      Req(<<SET, KeyK, ValV>>),
      Req(<<SET, KeyK, ValW, PX, <<"1">> >>),
      Req(<<SET, KeyK, ValV, PX, <<"0">> >>),
      Req(<<GET, KeyK>>),
      Req(<<SET, KeyK, ValV, PX, <<"x">> >>),
      ArrayWire(<<None, Some(GET)>>),
      ArrayWire(<<Some(SET), None, Some(ValV)>>),
      Req(<<SET, KeyK>>),
      Req(<<SET, KeyK, ValW, ValV>>),
      Req(<<GET, KeyK, KeyK>>),
      Req(<<GET>>) }

KeyJ == <<"j">>
ValMinusOne == <<"-", "1">>
FOO == <<"F", "O", "O">>

\* the buffers a read can deliver where the engine's replies and the store's
\* key lifecycle are looked at: two keys, a stored value "-1", the commands
\* that do not use the store
EngineRequests ==
    { Req(<<PING>>),
      Req(<<ECHO, ValV>>),
      Req(<<FOO>>),
      Req(<<SET, KeyK, ValMinusOne, PX, <<"1">> >>),
      Req(<<GET, KeyK>>),
      Req(<<SET, KeyJ, ValV>>),
      Req(<<GET, KeyJ>>) }

\* the null request "*-1\r\n" and the empty array "*0\r\n"
NullArrayWire == <<ARRAY_DENOTE>> \o NULL_DENOTE \o CRLF
EmptyArrayWire == ArrayWire(<<>>)

\* command names in other spellings, and names that are no command
LowerPing == <<"p", "i", "n", "g">>
MixedPing == <<"P", "i", "N", "g">>
LowerEcho == <<"e", "c", "h", "o">>
MixedEcho == <<"e", "C", "h", "O">>
LowerSet == <<"s", "e", "t">>
MixedSet == <<"S", "e", "T">>
LowerGet == <<"g", "e", "t">>
MixedGet == <<"g", "E", "t">>
LowerFoo == <<"f", "o", "o">>
GETS == <<"G", "E", "T", "S">>

\* the buffers a read can deliver where the dispatch on the name is looked at
DispatchRequests ==
    { Req(<<name>>) : name \in {PING, LowerPing, MixedPing} }
        \cup { Req(<<name, ValV>>) : name \in {ECHO, LowerEcho, MixedEcho} }
        \cup { Req(<<name, KeyK, ValV>>) : name \in {SET, LowerSet, MixedSet} }
        \cup { Req(<<name, KeyK, ValW, PX, <<"1">> >>) : name \in {SET, LowerSet} }
        \cup { Req(<<name, KeyK>>) : name \in {GET, LowerGet, MixedGet} }
        \cup { Req(<<name, KeyK>>) : name \in {FOO, LowerFoo, GETS} }

\* the complete requests one read can hold, one or two of them
Pipelines ==
    { <<Req(<<PING>>)>>,
      <<Req(<<SET, KeyK, ValV>>)>>,
      <<Req(<<SET, KeyK, ValV, PX, <<"0">> >>)>>,
      <<Req(<<GET, KeyK>>)>>,
      <<Req(<<PING>>), Req(<<PING>>)>>,
      <<Req(<<GET, KeyK>>), Req(<<PING>>)>>,
      <<Req(<<SET, KeyK, ValV>>), Req(<<GET, KeyK>>)>> }

\* the bytes of the requests, one behind the other
RECURSIVE Concat(_)
Concat(reqs) == IF Len(reqs) = 0 THEN <<>> ELSE Head(reqs) \o Concat(Tail(reqs))

\* the buffers a read can deliver where reads with several requests are looked at
PipelineRequests == { Concat(reqs) : reqs \in Pipelines }

\* the buffers a read can deliver where null and empty requests are looked at
WireRequests ==
    { NullArrayWire,
      EmptyArrayWire,
      Req(<<PING>>),
      Req(<<SET, KeyK, ValV, PX, <<"0">> >>),
      Req(<<GET, KeyK>>) }

---------------------------------------------------------------------------
(* The server: one handle_connection task per accepted connection, all      *)
(* sharing the store behind one Mutex.                                      *)

VARIABLES
    store,      \* Store.data
    now,        \* the reading Instant::now() gives, in milliseconds
    holders,    \* the connections holding a MutexGuard of the store
    poisoned,   \* the Mutex's poison flag
    pc,         \* where each connection's task stands
    buf,        \* each connection's read buffer
    cmd,        \* the Command a connection is executing
    resp,       \* the reply a connection is about to write
    nread,      \* non-empty reads each connection has got
    cur,        \* the arrival number of the request a connection is serving
    writes,     \* per connection, the arrival numbers of the requests whose
                \* replies were written, in the order written
    lastSet,    \* history: per key, the last SET that completed on it
    input,      \* the string handed to the decoder when it is run on its own
    output      \* what the decoder returned for input, Pending before it ran

vars == <<store, now, holders, poisoned, pc, buf, cmd, resp, nread, cur, writes, lastSet,
          input, output>>

Conns == 1..NConns

NoCmd == [cmd |-> <<>>, args |-> <<>>]

\* the decoder has not run
Pending == [tag |-> "Pending"]

RECURSIVE SumTo(_, _)
SumTo(f, n) == IF n = 0 THEN 0 ELSE f[n] + SumTo(f, n - 1)

TotalReads == SumTo(nread, NConns)

Init ==
    /\ store = StoreNew
    /\ now = 0
    /\ holders = {}
    /\ poisoned = FALSE
    /\ pc = [c \in Conns |-> "read"]
    /\ buf = [c \in Conns |-> <<>>]
    /\ cmd = [c \in Conns |-> NoCmd]
    /\ resp = [c \in Conns |-> <<>>]
    /\ nread = [c \in Conns |-> 0]
    /\ cur = [c \in Conns |-> 0]
    /\ writes = [c \in Conns |-> <<>>]
    /\ lastSet = << >>
    /\ input = <<>>
    /\ output = Pending

\* Tick with a fault: a sweep removes the entries whose expiry has passed as
\* the clock advances
TickWithSweep ==
    /\ now < MaxTime
    /\ now' = now + 1
    /\ store' = [k \in {x \in DOMAIN store : ~Expired(store[x], now + 1)} |-> store[k]]
    /\ UNCHANGED <<input, output, holders, poisoned, pc, buf, cmd, resp, nread, cur, writes, lastSet>>

\* the clock advances
Tick ==
    /\ now < MaxTime
    /\ now' = now + 1
    /\ UNCHANGED <<input, output, store, holders, poisoned, pc, buf, cmd, resp, nread, cur, writes, lastSet>>

\* what buf_to_string, the decoder and parse_cmd make of the bytes read:
\* Some(Command), or Panic (the decoder's None reaches the panic! of the loop)
Parsed(bytes) ==
    LET decoded == deserialize_command_into_array(bytes) IN
    IF decoded.tag = "Some" THEN parse_cmd(decoded.val) ELSE Panic

\* Parsed over the buffers a read can deliver
ParsedRequests ==
    [bytes \in Requests \cup EngineRequests \cup WireRequests \cup DispatchRequests
                 \cup PipelineRequests
        |-> Parsed(bytes)]

\* CanRead with a fault: the next request is read while a reply is still to be written
CanReadEarly(c) == pc[c] \in {"read", "write"}

\* a connection may take its next request: it is at the top of its loop
CanRead(c) == pc[c] = "read"

\* read_buf returns bytes: the loop body up to the reply, or up to the lock()
\* of the SET and GET arms
ReadFrom(c, requests) ==
    /\ CanRead(c)
    /\ TotalReads < MaxReads
    /\ \E bytes \in requests :
          LET parsed == ParsedRequests[bytes] IN
          /\ buf' = [buf EXCEPT ![c] = bytes]
          /\ nread' = [nread EXCEPT ![c] = @ + 1]
          /\ cur' = [cur EXCEPT ![c] = nread[c] + 1]
          /\ IF parsed.tag # "Some"
             THEN /\ pc' = [pc EXCEPT ![c] = "panicked"]
                  /\ cmd' = [cmd EXCEPT ![c] = NoCmd]
                  /\ resp' = [resp EXCEPT ![c] = <<>>]
             ELSE IF UsesStore(parsed.val)
             THEN /\ pc' = [pc EXCEPT ![c] = "lock"]
                  /\ cmd' = [cmd EXCEPT ![c] = parsed.val]
                  /\ resp' = [resp EXCEPT ![c] = <<>>]
             ELSE /\ pc' = [pc EXCEPT ![c] = "write"]
                  /\ cmd' = [cmd EXCEPT ![c] = parsed.val]
                  /\ resp' = [resp EXCEPT ![c] = ReplyWithoutStore(parsed.val)]
    /\ UNCHANGED <<input, output, store, now, holders, poisoned, writes, lastSet>>

Read(c) == ReadFrom(c, Requests)

\* read_buf returns 0: the client closed, the loop breaks, the task returns Ok
Close(c) ==
    /\ pc[c] = "read"
    /\ pc' = [pc EXCEPT ![c] = "closed"]
    /\ UNCHANGED <<input, output, store, now, holders, poisoned, buf, cmd, resp, nread, cur, writes, lastSet>>

\* read_buf fails: the ? returns the error, the task ends
ReadError(c) ==
    /\ pc[c] = "read"
    /\ pc' = [pc EXCEPT ![c] = "failed"]
    /\ UNCHANGED <<input, output, store, now, holders, poisoned, buf, cmd, resp, nread, cur, writes, lastSet>>

\* MutexFree with a fault: lock() never waits
MutexFreeAlways == TRUE

\* Mutex::lock blocks until no guard is out
MutexFree == holders = {}

\* client_store.lock().unwrap(): the guard, or a panic when the Mutex is
\* poisoned (the guard inside the PoisonError is dropped by the unwind)
Lock(c) ==
    /\ pc[c] = "lock"
    /\ MutexFree
    /\ IF poisoned
       THEN /\ pc' = [pc EXCEPT ![c] = "panicked"]
            /\ UNCHANGED holders
       ELSE /\ pc' = [pc EXCEPT ![c] = "held"]
            /\ holders' = holders \cup {c}
    /\ UNCHANGED <<input, output, store, now, poisoned, buf, cmd, resp, nread, cur, writes, lastSet>>

\* Unlocked with a fault: the guard is never dropped
UnlockedNever(c) == holders

\* the guard is dropped: at the end of the SET statement, at the end of the
\* GET arm's if-let
Unlocked(c) == holders \ {c}

\* the SET arm with the guard held: the arguments of set_px are evaluated
\* after lock().unwrap(), so a failing expiry.parse::<u64>().unwrap() unwinds
\* through the guard and poisons the Mutex
SetStep(c) ==
    /\ pc[c] = "held"
    /\ CmdName(cmd[c]) = SET
    /\ LET key == cmd[c].args[1]
           value == cmd[c].args[2]
           px == IF IsSetPx(cmd[c]) THEN ParseU64(cmd[c].args[4]) ELSE None
       IN  IF IsSetPx(cmd[c]) /\ px.tag = "None"
           THEN /\ pc' = [pc EXCEPT ![c] = "panicked"]
                /\ poisoned' = TRUE
                /\ UNCHANGED <<store, resp, lastSet>>
           ELSE /\ store' = IF IsSetPx(cmd[c])
                            THEN StoreSetPx(store, key, value, px.val, now)
                            ELSE StoreSet(store, key, value)
                /\ lastSet' = MapInsert(lastSet, key,
                                  [value |-> value, px |-> px, at |-> now,
                                   prev |-> MapGet(store, key)])
                /\ resp' = [resp EXCEPT ![c] = EncodeSimpleString(OK)]
                /\ pc' = [pc EXCEPT ![c] = "write"]
                /\ UNCHANGED poisoned
    /\ holders' = Unlocked(c)
    /\ UNCHANGED <<input, output, now, buf, cmd, nread, cur, writes>>

\* Store::get up to its decision, in the GET arm with the guard held: the
\* lookup and the expiry test; an expired entry is removed in the next step
GetCheck(c) ==
    /\ pc[c] = "held"
    /\ CmdName(cmd[c]) = GET
    /\ LET entry == MapGet(store, cmd[c].args[1]) IN
       IF entry.tag = "Some" /\ Expired(entry.val, now)
       THEN /\ pc' = [pc EXCEPT ![c] = "remove"]
            /\ UNCHANGED <<holders, resp>>
       ELSE /\ resp' = [resp EXCEPT ![c] =
                           IF entry.tag = "Some"
                           THEN EncodeSimpleString(entry.val.value)
                           ELSE EncodeBulkString(NULL_DENOTE)]
            /\ pc' = [pc EXCEPT ![c] = "write"]
            /\ holders' = Unlocked(c)
    /\ UNCHANGED <<input, output, store, now, poisoned, buf, cmd, nread, cur, writes, lastSet>>

\* Store::get's self.data.remove(key) and return None, then the null reply
GetRemove(c) ==
    /\ pc[c] = "remove"
    /\ store' = MapRemove(store, cmd[c].args[1])
    /\ resp' = [resp EXCEPT ![c] = EncodeBulkString(NULL_DENOTE)]
    /\ pc' = [pc EXCEPT ![c] = "write"]
    /\ holders' = Unlocked(c)
    /\ UNCHANGED <<input, output, now, poisoned, buf, cmd, nread, cur, writes, lastSet>>

\* stream.write(resp) and buf.clear(): back to the top of the loop
Write(c) ==
    /\ pc[c] = "write"
    /\ writes' = [writes EXCEPT ![c] = Append(@, cur[c])]
    /\ buf' = [buf EXCEPT ![c] = <<>>]
    /\ cmd' = [cmd EXCEPT ![c] = NoCmd]
    /\ resp' = [resp EXCEPT ![c] = <<>>]
    /\ pc' = [pc EXCEPT ![c] = "read"]
    /\ UNCHANGED <<input, output, store, now, holders, poisoned, nread, cur, lastSet>>

\* stream.write fails: the ? returns the error, the task ends
WriteError(c) ==
    /\ pc[c] = "write"
    /\ pc' = [pc EXCEPT ![c] = "failed"]
    /\ UNCHANGED <<input, output, store, now, holders, poisoned, buf, cmd, resp, nread, cur, writes, lastSet>>

Next ==
    \/ Tick
    \/ \E c \in Conns : Read(c)
    \/ \E c \in Conns : Close(c)
    \/ \E c \in Conns : ReadError(c)
    \/ \E c \in Conns : Lock(c)
    \/ \E c \in Conns : SetStep(c)
    \/ \E c \in Conns : GetCheck(c)
    \/ \E c \in Conns : GetRemove(c)
    \/ \E c \in Conns : Write(c)
    \/ \E c \in Conns : WriteError(c)

Spec == Init /\ [][Next]_vars

\* every step of the server but the read of a request
ServeSteps ==
    \/ Tick
    \/ \E c \in Conns : Close(c)
    \/ \E c \in Conns : ReadError(c)
    \/ \E c \in Conns : Lock(c)
    \/ \E c \in Conns : SetStep(c)
    \/ \E c \in Conns : GetCheck(c)
    \/ \E c \in Conns : GetRemove(c)
    \/ \E c \in Conns : Write(c)
    \/ \E c \in Conns : WriteError(c)

\* the server with clients that send the requests of EngineRequests
ReadEngine(c) == ReadFrom(c, EngineRequests)

NextEngine == (\E c \in Conns : ReadEngine(c)) \/ ServeSteps

SpecEngine == Init /\ [][NextEngine]_vars

\* the server with clients that send the requests of WireRequests
ReadWire(c) == ReadFrom(c, WireRequests)

NextWire == (\E c \in Conns : ReadWire(c)) \/ ServeSteps

SpecWire == Init /\ [][NextWire]_vars

\* the server with clients that send the requests of DispatchRequests
ReadDispatch(c) == ReadFrom(c, DispatchRequests)

NextDispatch == (\E c \in Conns : ReadDispatch(c)) \/ ServeSteps

SpecDispatch == Init /\ [][NextDispatch]_vars

\* the server with clients that send the requests of PipelineRequests
ReadPipeline(c) == ReadFrom(c, PipelineRequests)

NextPipeline == (\E c \in Conns : ReadPipeline(c)) \/ ServeSteps

SpecPipeline == Init /\ [][NextPipeline]_vars

---------------------------------------------------------------------------
(* Vocabulary of the properties. *)

NullReply == EncodeBulkString(NULL_DENOTE)

IsErrorReply(r) == Len(r) > 0 /\ r[1] = ERROR_DENOTE

IsGet(c) == CmdName(cmd[c]) = GET /\ Len(cmd[c].args) >= 1

GetKey(c) == cmd[c].args[1]

\* the step in which connection c's Store::get returns and its reply is made
GetDone(c) == pc[c] \in {"held", "remove"} /\ IsGet(c) /\ pc'[c] = "write"

\* the last SET on the key of c's GET was a plain SET
AfterPlainSet(c) ==
    /\ GetKey(c) \in DOMAIN lastSet
    /\ lastSet[GetKey(c)].px.tag = "None"

\* the last SET on the key of c's GET was SET ... PX
AfterSetPx(c) ==
    /\ GetKey(c) \in DOMAIN lastSet
    /\ lastSet[GetKey(c)].px.tag = "Some"

\* the clock reading past which the last SET ... PX on the key of c's GET expires
Deadline(c) == lastSet[GetKey(c)].at + lastSet[GetKey(c)].px.val

\* what the last SET on the key of c's GET and the clock make of the GET
ExpectedGet(c) ==
    IF GetKey(c) \notin DOMAIN lastSet THEN NullReply
    ELSE IF AfterSetPx(c) /\ now > Deadline(c) THEN NullReply
    ELSE EncodeSimpleString(lastSet[GetKey(c)].value)

---------------------------------------------------------------------------
(* C1: after a SET k v without expiry, every GET k returns v until the next *)
(* SET on k, at any clock reading, also when the entry the SET replaced     *)
(* carried an expiry.                                                       *)
C1_PlainSetPersists ==
    [][\A c \in Conns :
          (GetDone(c) /\ AfterPlainSet(c))
              => /\ resp'[c] = EncodeSimpleString(lastSet[GetKey(c)].value)
                 /\ GetKey(c) \in DOMAIN store'
                 /\ pc[c] = "held"]_vars

\* a GET has returned the value of a plain SET that replaced an entry whose
\* expiry has passed since
C1_Witness ==
    \E c \in Conns :
        /\ pc[c] = "write" /\ IsGet(c) /\ AfterPlainSet(c)
        /\ resp[c] = EncodeSimpleString(lastSet[GetKey(c)].value)
        /\ lastSet[GetKey(c)].prev.tag = "Some"
        /\ lastSet[GetKey(c)].prev.val.expiry.tag = "Some"
        /\ now > lastSet[GetKey(c)].prev.val.expiry.val

(* C2: after SET k v PX ttl with no later SET on k, a GET k that reads the  *)
(* clock more than ttl after the SET returns absent and leaves k out of the *)
(* map; a GET k that reads it at most ttl after the SET returns v.          *)
C2_ExpiryAfterTtl ==
    [][\A c \in Conns :
          (GetDone(c) /\ AfterSetPx(c))
              => IF now > Deadline(c)
                 THEN resp'[c] = NullReply /\ GetKey(c) \notin DOMAIN store'
                 ELSE /\ resp'[c] = EncodeSimpleString(lastSet[GetKey(c)].value)
                      /\ GetKey(c) \in DOMAIN store']_vars

\* a GET has answered absent for a key set with a ttl of 1 that has passed,
\* and the key is out of the map
C2_Witness ==
    \E c \in Conns :
        /\ pc[c] = "write" /\ IsGet(c) /\ AfterSetPx(c)
        /\ lastSet[GetKey(c)].px.val = 1
        /\ now > Deadline(c)
        /\ resp[c] = NullReply
        /\ GetKey(c) \notin DOMAIN store

(* C3 as claimed: the GET k that follows SET k v PX 0 replies with the null *)
(* marker, with no clock advance needed in between.                         *)
C3_ZeroTtlAbsentAtOnce ==
    [][\A c \in Conns :
          (GetDone(c) /\ AfterSetPx(c) /\ lastSet[GetKey(c)].px.val = 0)
              => resp'[c] = NullReply]_vars

(* C3 amended: the GET k that follows SET k v PX 0 replies with the null    *)
(* marker exactly when its clock reading is later than the SET's; when it   *)
(* reads the same instant it replies with v (Store::get tests now > expiry).*)
C3_ZeroTtlAbsentOnceClockMoved ==
    [][\A c \in Conns :
          (GetDone(c) /\ AfterSetPx(c) /\ lastSet[GetKey(c)].px.val = 0)
              => IF now > lastSet[GetKey(c)].at
                 THEN resp'[c] = NullReply
                 ELSE resp'[c] = EncodeSimpleString(lastSet[GetKey(c)].value)]_vars

\* a GET after SET ... PX 0 has replied with the null marker, the clock
\* having moved since the SET
C3_Witness ==
    \E c \in Conns :
        /\ pc[c] = "write" /\ IsGet(c) /\ AfterSetPx(c)
        /\ lastSet[GetKey(c)].px.val = 0
        /\ now > lastSet[GetKey(c)].at
        /\ resp[c] = NullReply

(* C4: at most one connection holds the store lock, and only inside one     *)
(* Store operation: never while waiting for a read, while writing a reply,  *)
(* while waiting for the lock, or after its task has ended.                 *)
C4_LockOnlyAroundStoreOp ==
    /\ Cardinality(holders) <= 1
    /\ \A c \in holders : pc[c] \in {"held", "remove"}

\* one connection holds the lock inside a Store operation while another
\* waits for it
C4_Witness ==
    \E c, d \in Conns :
        c # d /\ holders = {c} /\ pc[c] = "held" /\ pc[d] = "lock"

(* C5: Store operations of concurrent connections take effect one at a time *)
(* in one order: every GET k returns the value of the latest SET on k       *)
(* before it, or absent when there is none or it has expired, and the only  *)
(* entry a GET removes is the expired one it has just tested.               *)
C5_StoreOpsSerialized ==
    [][/\ \A c \in Conns : GetDone(c) => resp'[c] = ExpectedGet(c)
       /\ \A k \in DOMAIN store :
             k \notin DOMAIN store'
                 => /\ Expired(store[k], now)
                    /\ \E c \in Conns : pc[c] = "remove" /\ GetKey(c) = k /\ pc'[c] = "write"
       /\ \A k \in DOMAIN store' :
             /\ k \in DOMAIN lastSet'
             /\ store'[k].value = lastSet'[k].value]_vars

\* a GET stands between its expiry test and its removal, holding the lock,
\* while the SET of another connection on the same key waits for the lock
C5_Witness ==
    \E c, d \in Conns :
        /\ c # d
        /\ pc[c] = "remove" /\ holders = {c}
        /\ pc[d] = "lock" /\ CmdName(cmd[d]) = SET /\ cmd[d].args[1] = GetKey(c)

(* C6: a connection serves its requests in arrival order, one at a time:    *)
(* the k-th reply written is the reply to the k-th request read, and a      *)
(* request is read only when every earlier one has its reply written.       *)
C6_RepliesInArrivalOrder ==
    \A c \in Conns :
        /\ \A i \in 1..Len(writes[c]) : writes[c][i] = i
        /\ Len(writes[c]) <= nread[c]
        /\ nread[c] <= Len(writes[c]) + 1
        /\ pc[c] \in {"lock", "held", "remove", "write"}
               => cur[c] = Len(writes[c]) + 1

\* a connection has written the replies to two requests and is serving a third
C6_Witness ==
    \E c \in Conns : writes[c] = <<1, 2>> /\ nread[c] = 3 /\ pc[c] = "write"

\* the bytes decode to a token sequence that holds a null token
HasNullToken(bytes) ==
    LET decoded == deserialize_command_into_array(bytes) IN
    /\ decoded.tag = "Some"
    /\ \E i \in 1..Len(decoded.val) : decoded.val[i].tag = "None"

\* SET key value PX millis whose millis is no unsigned integer
IsSetPxBadMillis(command) ==
    IsSetPx(command) /\ ParseU64(command.args[4]).tag = "None"

\* SET with an argument count other than 2 and 4, GET with one other than 1
WrongArgCount(command) ==
    \/ CmdName(command) = SET /\ Len(command.args) \notin {2, 4}
    \/ CmdName(command) = GET /\ Len(command.args) # 1

\* the request c is serving is one that panics its own task
OwnFault(c) == Parsed(buf[c]).tag = "Panic" \/ IsSetPxBadMillis(cmd[c])

(* C7: a request with a null token, as its first token or as an argument,   *)
(* is rejected when the Command is built: from reading it the connection    *)
(* goes on to write one error reply (and then to read again), without a     *)
(* panic and without touching the store.                                    *)
C7_NullTokenGetsErrorReply ==
    \A c \in Conns :
        HasNullToken(buf[c]) => pc[c] = "write" /\ IsErrorReply(resp[c])

(* C8: SET key value PX millis with a millis that is no unsigned integer is *)
(* answered with an error reply: the connection does not panic, the Mutex   *)
(* is left usable and the connection goes on to write that reply.           *)
C8_BadMillisGetsErrorReply ==
    \A c \in Conns :
        IsSetPxBadMillis(cmd[c])
            => /\ pc[c] \in {"lock", "held", "write"}
               /\ pc[c] = "write" => IsErrorReply(resp[c])
               /\ ~poisoned

(* C9: a failure of one connection stays on that connection: a connection   *)
(* ends abnormally only through its own request or its own transport, so a  *)
(* connection whose request is a GET or a SET with a valid expiry acquires  *)
(* the lock and gets its reply whatever has happened to the others.         *)
C9_FailureStaysOnItsConnection ==
    \A c \in Conns : pc[c] = "panicked" => OwnFault(c)

(* C10: SET with an argument count other than 2 and 4, and GET with one     *)
(* other than 1, perform no Store operation and are answered with an error  *)
(* reply.                                                                   *)
C10_ArgCountsEnforced ==
    [][\A c \in Conns :
          (WrongArgCount(cmd'[c]) /\ pc'[c] # pc[c])
              => /\ store' = store
                 /\ pc'[c] = "write" => IsErrorReply(resp'[c])]_vars

---------------------------------------------------------------------------
(* The decoder on its own: the string handed to it is drawn from the wire   *)
(* encodings of short token sequences, with the array prefix the encoding   *)
(* calls for or another one, and from buffers with a length prefix that is  *)
(* no integer or that runs past the end of the buffer.                      *)

\* tokens per request in the decoder's inputs
MaxTokens == 2

PONG_ == <<"P", "O", "N", "G">>
TenChars == <<"0", "1", "2", "3", "4", "5", "6", "7", "8", "9">>

\* contents without '*', '$' and carriage return, of one or more bytes
PlainContents == { <<"a">>, PING, TenChars }

\* contents that hold '*', '$' or a carriage return, and the empty content
MarkerContents == { <<"*">>, <<"$">>, <<"\r">>, <<"a", "$">>, <<>> }

PlainTokens == { Some(s) : s \in PlainContents }
PresentTokens == { Some(s) : s \in PlainContents \cup MarkerContents }
DecoderTokens == PresentTokens \cup {None}

\* the sequences of up to MaxTokens elements of a set
SeqsOf(S) == UNION { [1..n -> S] : n \in 0..MaxTokens }

\* "$<lenText>\r\n<content>\r\n" and "*<prefixText>\r\n<body>"
RawBulk(lenText, content) == <<BULK_STRING_DENOTE>> \o lenText \o CRLF \o content \o CRLF
RawArray(prefixText, body) == <<ARRAY_DENOTE>> \o prefixText \o CRLF \o body

\* the encoding of tokens behind the array prefix p
WireWithPrefix(p, tokens) == RawArray(IntToChars(p), BulksWire(tokens))

\* buffers with a length prefix that is no integer: the array's, the first
\* element's, the second element's
BadLengthInputs ==
    { RawArray(<<"x">>, BulksWire(<<Some(PING)>>)),
      RawArray(<<>>, BulksWire(<<Some(PING)>>)),
      RawArray(<<"1">>, RawBulk(<<"x">>, PING)),
      RawArray(<<"1">>, RawBulk(<<>>, PING)),
      RawArray(<<"2">>, RawBulk(<<"4">>, PING) \o RawBulk(<<"x">>, PONG_)),
      RawArray(<<"2">>, RawBulk(<<"1">>, <<"a">>) \o RawBulk(<<"4", "x">>, PONG_)) }

\* buffers whose bulk string declares more bytes than the buffer holds, or a
\* negative length other than -1
TruncatedInputs ==
    { RawArray(<<"1">>, <<"$", "9">> \o CRLF \o <<"P", "I">>),
      RawArray(<<"1">>, <<"$", "5">> \o CRLF \o PING),
      RawArray(<<"2">>, RawBulk(<<"4">>, PING) \o <<"$", "4">> \o CRLF \o <<"P", "O">>),
      RawArray(<<"1">>, RawBulk(<<"-", "2">>, PING)) }

DecoderInputs ==
    { WireWithPrefix(p, tokens) : p \in 0..(MaxTokens + 1), tokens \in SeqsOf(DecoderTokens) }
        \cup BadLengthInputs \cup TruncatedInputs \cup {NullArrayWire}

InitDecode ==
    /\ input \in DecoderInputs
    /\ output = Pending
    /\ store = StoreNew
    /\ now = 0
    /\ holders = {}
    /\ poisoned = FALSE
    /\ pc = [c \in Conns |-> "read"]
    /\ buf = [c \in Conns |-> <<>>]
    /\ cmd = [c \in Conns |-> NoCmd]
    /\ resp = [c \in Conns |-> <<>>]
    /\ nread = [c \in Conns |-> 0]
    /\ cur = [c \in Conns |-> 0]
    /\ writes = [c \in Conns |-> <<>>]
    /\ lastSet = << >>

\* deserialize_command_into_array is called on the input
Decode ==
    /\ output = Pending
    /\ output' = deserialize_command_into_array(input)
    /\ UNCHANGED <<input, store, now, holders, poisoned, pc, buf, cmd, resp, nread, cur,
                   writes, lastSet>>

SpecDecode == InitDecode /\ [][Decode]_vars

\* the decoder has returned, or panicked
Decoded == output # Pending

---------------------------------------------------------------------------
(* The engine's replies and the store's key lifecycle, under SpecEngine.    *)

\* the null marker on the wire: "$-1\r\n"
NullMarkerWire == <<"$", "-", "1", "\r", "\n">>

\* the entry Store::get finds for the key of c's GET is absent or expired
GetFindsNothing(c) ==
    \/ GetKey(c) \notin DOMAIN store
    \/ Expired(store[GetKey(c)], now)

(* C11: GET k on an absent or expired key replies with the null marker      *)
(* "$-1\r\n", never with an error; GET k on a present, unexpired key        *)
(* replies with "+<value>\r\n", which differs from the null marker for      *)
(* every value, the value "-1" included.                                    *)
C11_GetMissIsNullMarker ==
    [][\A c \in Conns :
          GetDone(c)
              => IF GetFindsNothing(c)
                 THEN resp'[c] = NullMarkerWire
                 ELSE /\ resp'[c] = <<"+">> \o store[GetKey(c)].value \o <<"\r", "\n">>
                      /\ resp'[c] # NullMarkerWire]_vars

\* one GET has been answered with the stored value "-1" and another with
\* the null marker
C11_Witness ==
    \E c, d \in Conns :
        /\ pc[c] = "write" /\ IsGet(c) /\ resp[c] = <<"+", "-", "1", "\r", "\n">>
        /\ pc[d] = "write" /\ IsGet(d) /\ resp[d] = NullMarkerWire

\* the step is one of connection c's task, serving a command other than SET
\* (or reading, or ending)
StepOfNonSet(c) ==
    /\ pc'[c] # pc[c]
    /\ CmdName(IF pc[c] = "read" THEN cmd'[c] ELSE cmd[c]) # SET

(* C12 as claimed: GET, PING, ECHO and unknown commands leave the           *)
(* key-to-entry map exactly as it was, in every store state and at every    *)
(* clock reading.                                                           *)
C12_OnlySetMutates ==
    [][\A c \in Conns : StepOfNonSet(c) => store' = store]_vars

(* C12 amended: PING, ECHO and unknown commands leave the map exactly as it *)
(* was, and so does GET, except that GET k removes the entry of k when that *)
(* entry has an expiry and the clock is past it; every other entry stays as *)
(* it was.                                                                  *)
C12_OnlySetAndExpiredGetMutate ==
    [][\A c \in Conns :
          StepOfNonSet(c)
              => \/ store' = store
                 \/ /\ IsGet(c)
                    /\ GetKey(c) \in DOMAIN store
                    /\ store[GetKey(c)].expiry.tag = "Some"
                    /\ now > store[GetKey(c)].expiry.val
                    /\ DOMAIN store' = (DOMAIN store) \ {GetKey(c)}
                    /\ \A k \in DOMAIN store' : store'[k] = store[k]]_vars

\* a GET has removed the expired entry of its key and left the entry of the
\* other key in the map
C12_Witness ==
    \E c \in Conns :
        /\ pc[c] = "write" /\ IsGet(c) /\ resp[c] = NullMarkerWire
        /\ GetKey(c) \in DOMAIN lastSet
        /\ GetKey(c) \notin DOMAIN store
        /\ DOMAIN store # {}

(* C13: an entry leaves the map only in the removal step of a GET of its    *)
(* own key that found its expiry passed: the clock's advance, SET and GET   *)
(* on other keys, PING and ECHO never remove it, so an entry whose expiry   *)
(* has passed stays in the map until its key is read.                       *)
C13_RemovedOnlyByOwnExpiredGet ==
    [][\A k \in DOMAIN store :
          k \notin DOMAIN store'
              => /\ store[k].expiry.tag = "Some"
                 /\ now > store[k].expiry.val
                 /\ \E c \in Conns :
                       /\ IsGet(c) /\ GetKey(c) = k
                       /\ pc[c] = "remove" /\ pc'[c] = "write"]_vars

\* an entry whose expiry has passed is still in the map after a GET of the
\* other key has been served
C13_Witness ==
    \E k \in DOMAIN store, c \in Conns :
        /\ store[k].expiry.tag = "Some" /\ now > store[k].expiry.val
        /\ pc[c] = "write" /\ IsGet(c) /\ GetKey(c) # k
        /\ GetKey(c) \in DOMAIN store

---------------------------------------------------------------------------
(* The decoder's contract, under SpecDecode. *)

(* C14: decoding the wire encoding of a sequence of present tokens, '*argc'  *)
(* and argc bulk strings, returns exactly that sequence: argc present        *)
(* tokens, equal to the bulk strings' contents and in their order.          *)
C14_RoundTrip ==
    \A tokens \in SeqsOf(PresentTokens) :
        (Decoded /\ input = ArrayWire(tokens)) => output = Some(tokens)

\* the elements before position i hold no marker and are not empty
PlainBefore(tokens, i) == \A j \in 1..(i - 1) : tokens[j] \in PlainTokens

(* C15: a bulk string of n >= 0 bytes, standing after elements without       *)
(* markers, is pushed as one present token holding those n bytes verbatim,   *)
(* whether or not they hold or begin with '*', '$' or a carriage return,     *)
(* and the scan resumes behind them: a plain element that follows is the     *)
(* next token.                                                               *)
C15_ContentTakenVerbatim ==
    \A tokens \in SeqsOf(PresentTokens) :
        \A i \in 1..Len(tokens) :
            (Decoded /\ input = ArrayWire(tokens) /\ PlainBefore(tokens, i))
                => /\ output.tag = "Some"
                   /\ Len(output.val) >= i
                   /\ output.val[i] = tokens[i]
                   /\ (i < Len(tokens) /\ tokens[i + 1] \in PlainTokens)
                          => /\ Len(output.val) >= i + 1
                             /\ output.val[i + 1] = tokens[i + 1]

\* the positions of the null tokens of a sequence
NullPositions(tokens) == { i \in 1..Len(tokens) : tokens[i] = None }

(* C16: in a request of null bulk strings and plain bulk strings, the        *)
(* decoded sequence has as many tokens as the request has elements and its   *)
(* null tokens stand exactly at the positions of the null bulk strings,      *)
(* first, middle or last, whatever the length of the element that follows.   *)
C16_NullBulkIsOneNullToken ==
    \A tokens \in SeqsOf(PlainTokens \cup {None}) :
        (Decoded /\ input = ArrayWire(tokens))
            => /\ output.tag = "Some"
               /\ Len(output.val) = Len(tokens)
               /\ NullPositions(output.val) = NullPositions(tokens)

(* C18: on a buffer whose array or bulk-string length prefix is no integer,  *)
(* the decoder returns no token sequence.                                    *)
C18_BadLengthIsNoTokenSequence ==
    (Decoded /\ input \in BadLengthInputs) => output.tag # "Some"

(* C19: on a buffer whose bulk string declares more bytes than the buffer    *)
(* holds, or a negative length other than -1, the decoder returns a value:   *)
(* it does not panic.                                                        *)
C19_TruncatedIsNoPanic ==
    (Decoded /\ input \in TruncatedInputs) => output # Panic

\* the array prefixes put before a body
Prefixes == 0..(MaxTokens + 1)

(* C20 as stated: whenever decoding yields a token sequence, the sequence    *)
(* has as many tokens as the array-length prefix at the start of the buffer  *)
(* says.                                                                     *)
C20_CountEqualsPrefix ==
    \A p \in Prefixes, tokens \in SeqsOf(DecoderTokens) :
        (Decoded /\ input = WireWithPrefix(p, tokens) /\ output.tag = "Some")
            => Len(output.val) = p

(* C20, amended: the array-length prefix fixes the number of tokens only     *)
(* when it is 0, and then the sequence is empty. Behind any other prefix the *)
(* decoder does not count elements: the result is the one decoded behind the *)
(* prefix 1, and a body of k non-empty bulk strings that do not hold '*',    *)
(* '$' or a carriage return yields those k tokens whatever the prefix says.  *)
C20_CountFixedByBodyNotPrefix ==
    \A p \in Prefixes, tokens \in SeqsOf(DecoderTokens) :
        (Decoded /\ input = WireWithPrefix(p, tokens))
            => /\ p = 0 => output = Some(<<>>)
               /\ p # 0 => output = deserialize_command_into_array(WireWithPrefix(1, tokens))
               /\ (p # 0 /\ tokens \in SeqsOf(PlainTokens))
                      => /\ output = Some(tokens)
                         /\ Len(output.val) = Len(tokens)

\* one element has been decoded behind a prefix that announces MaxTokens + 1
C20_Witness ==
    /\ Decoded
    /\ input = WireWithPrefix(MaxTokens + 1, <<Some(PING)>>)
    /\ output = Some(<<Some(PING)>>)

---------------------------------------------------------------------------
(* Null and empty requests on a connection, under SpecWire. *)

(* C17: a connection that has read the null request '*-1' or the empty       *)
(* array '*0' does not end in a panic: it stays in its loop.                 *)
C17_NullAndEmptyRequestSurvive ==
    \A c \in Conns :
        buf[c] \in {NullArrayWire, EmptyArrayWire} => pc[c] # "panicked"

---------------------------------------------------------------------------
(* The dispatch on the command name, under SpecDispatch. *)

\* two letters that differ at most in case
SameLetter(a, b) ==
    \/ a = b
    \/ \E i \in 1..Len(LowerChars) : {a, b} = {LowerChars[i], UpperChars[i]}

\* name is a spelling of word, in upper-case and lower-case letters
Spells(name, word) ==
    /\ Len(name) = Len(word)
    /\ \A i \in 1..Len(word) : SameLetter(name[i], word[i])

\* connection c's task takes the step that fixes its reply
Replies(c) == pc[c] # "write" /\ pc'[c] = "write"

\* the key is in the map and the clock has not passed its expiry
Live(key) ==
    /\ key \in DOMAIN store
    /\ store[key].expiry.tag = "Some" => now <= store[key].expiry.val

\* the map after the step is the map before it but for the key's entry
OthersKept(key) ==
    /\ (DOMAIN store') \ {key} = (DOMAIN store) \ {key}
    /\ \A x \in (DOMAIN store) \ {key} : store'[x] = store[x]

\* what SET does with its arguments: the entry written, the reply "+OK"
ActsAsSet(c, args) ==
    /\ resp'[c] = <<"+", "O", "K", "\r", "\n">>
    /\ args[1] \in DOMAIN store'
    /\ store'[args[1]].value = args[2]
    /\ store'[args[1]].expiry =
           IF Len(args) = 4 THEN Some(now + DigitsValue(args[4])) ELSE None
    /\ OthersKept(args[1])

\* what GET does with its key: the value or the null marker, an expired
\* entry taken out
ActsAsGet(c, args) ==
    /\ resp'[c] = IF Live(args[1])
                  THEN <<"+">> \o store[args[1]].value \o <<"\r", "\n">>
                  ELSE NullMarkerWire
    /\ Live(args[1]) => store' = store
    /\ ~Live(args[1]) => args[1] \notin DOMAIN store'
    /\ OthersKept(args[1])

\* the error reply to a name that is no command, the name as it was sent
UnknownCommandWire(name) ==
    <<"-", "E", "R", "R", " ", "u", "n", "k", "n", "o", "w", "n", " ",
      "c", "o", "m", "m", "a", "n", "d", " ", "'">> \o name \o <<"'", "\r", "\n">>

(* C21: the dispatch is case-insensitive and total. A well-formed request    *)
(* whose name spells PING, ECHO, SET or GET in any mix of upper and lower    *)
(* case gets the reply and the store effect of that command; a request with  *)
(* any other name gets "-ERR unknown command '<name>'" with the name as the  *)
(* client sent it, and leaves the store as it was.                           *)
C21_DispatchCaseInsensitiveAndTotal ==
    [][\A c \in Conns :
          Replies(c)
              => LET name == cmd'[c].cmd
                     args == cmd'[c].args
                 IN  IF Spells(name, PING)
                     THEN resp'[c] = <<"+", "P", "O", "N", "G", "\r", "\n">> /\ store' = store
                     ELSE IF Spells(name, ECHO)
                     THEN resp'[c] = <<"+">> \o args[1] \o <<"\r", "\n">> /\ store' = store
                     ELSE IF Spells(name, SET) THEN ActsAsSet(c, args)
                     ELSE IF Spells(name, GET) THEN ActsAsGet(c, args)
                     ELSE resp'[c] = UnknownCommandWire(name) /\ store' = store]_vars

\* a GET spelled in lower case is answered with the value a SET spelled in
\* mixed case stored, while a lower-case name that is no command is answered
\* with the error that carries it in lower case
C21_Witness ==
    \E c, d \in Conns :
        /\ pc[c] = "write" /\ cmd[c].cmd = LowerGet
        /\ resp[c] = <<"+">> \o ValV \o <<"\r", "\n">>
        /\ KeyK \in DOMAIN lastSet
        /\ pc[d] = "write" /\ cmd[d].cmd = LowerFoo
        /\ resp[d] = UnknownCommandWire(LowerFoo)

---------------------------------------------------------------------------
(* Reads and replies of the connection loop, under SpecPipeline. *)

\* the number of complete requests in the bytes of a read
RequestsIn(bytes) ==
    LET reqs == CHOOSE r \in Pipelines : Concat(r) = bytes IN Len(reqs)

(* C22: every non-empty read of a connection gets exactly one reply, so its  *)
(* task does not end in a panic with a read unanswered; the reply written    *)
(* leaves no request of the read unanswered, so the read it answers held one *)
(* request; the buffer is empty once the reply is written; and a loop ended  *)
(* by a zero-length read has written one reply per read and nothing more.    *)
C22_OneReplyPerReadNoneDropped ==
    \A c \in Conns :
        /\ pc[c] # "panicked"
        /\ pc[c] = "write" => RequestsIn(buf[c]) = 1
        /\ pc[c] \in {"read", "closed"} => buf[c] = <<>> /\ Len(writes[c]) = nread[c]
====
